---------------------------- MODULE Spec2Model ----------------------------
(* A model of aim_ratio_collections (src/src/main.rs): the classifier      *)
(* group_maps_by, and the collection synchronizer                          *)
(* remove_previous_collections / add_new_collections, as main runs them.   *)
(*                                                                         *)
(* Representation.                                                         *)
(*   Option<T>   : None is <<>>, Some(x) is <<x>>.                         *)
(*   String      : a sequence of one-character strings (a collection name, *)
(*                 the prefix); a beatmap hash, a folder or a file name is *)
(*                 only ever copied or unwrapped, and is an atom.          *)
(*   f64         : a star rating is counted in tenths of a star; the ratio *)
(*                 precision is an exact fraction num/den; pp values are   *)
(*                 small non-negative integers. Arithmetic is exact.       *)
(*   HashMap     : a function from its keys (i32) to the buckets.          *)
EXTENDS Integers, Sequences, FiniteSets, TLC

VARIABLES
    args,               \* Args: collection_prefix, ratio_precision, min_star_rating
    listing,            \* listing.beatmaps, as read from osu!.db
    collection_db,      \* the contents of the file collection.db
    pc,                 \* where main is
    filtered_maps,      \* group_maps_by: the records that passed the filter
    idx,                \* group_maps_by: records of filtered_maps the fold has consumed
    hash_map,           \* group_maps_by: the fold's accumulator
    rounded_aim_aspect, \* group_maps_by: the key the last closure call computed (Option)
    count,              \* group_maps_by: the progress counter
    aim_ratio_groups,   \* main: what group_maps_by returned
    collections,        \* main: collections.collections, in memory
    removed,            \* remove_previous_collections: the count it prints
    written             \* the stores written by the runs so far, oldest first

vars == <<args, listing, collection_db, pc, filtered_maps, idx, hash_map,
          rounded_aim_aspect, count, aim_ratio_groups, collections, removed, written>>

----------------------------------------------------------------------------
(* Bounds of the model *)

MaxMaps == 2

MaxCollections == 2

MaxRuns == 2

----------------------------------------------------------------------------
(* Option *)

None == <<>>

Some(x) == <<x>>

Unwrap(o) == o[1]

----------------------------------------------------------------------------
(* Strings *)

\* A starts_with that compares the whole name.
StartsWithWhole(name, prefix) == name = prefix

\* str::starts_with: the pattern is no longer than the string and equals its head.
StartsWith(name, prefix) ==
    /\ Len(prefix) <= Len(name)
    /\ SubSeq(name, 1, Len(prefix)) = prefix

DigitChar(d) == <<"0", "1", "2", "3", "4", "5", "6", "7", "8", "9">>[d + 1]

RECURSIVE Digits(_)
Digits(n) == IF n < 10 THEN <<DigitChar(n)>>
             ELSE Digits(n \div 10) \o <<DigitChar(n % 10)>>

\* Display for i32, as format! uses it.
DisplayI32(n) == IF n < 0 THEN <<"-">> \o Digits(0 - n) ELSE Digits(n)

AimLiteral == <<"%", " ", "A", "i", "m", " ", "/", " ">>

TappingLiteral == <<"%", " ", "T", "a", "p", "p", "i", "n", "g">>

\* A format! whose second argument is aim_ratio again.
CollectionNameSameNumber(prefix, aim_ratio) ==
    prefix \o DisplayI32(aim_ratio) \o AimLiteral
           \o DisplayI32(aim_ratio) \o TappingLiteral

\* format!("{prefix}{aim_ratio}% Aim / {}% Tapping", 100 - aim_ratio)
CollectionName(prefix, aim_ratio) ==
    prefix \o DisplayI32(aim_ratio) \o AimLiteral
           \o DisplayI32(100 - aim_ratio) \o TappingLiteral

----------------------------------------------------------------------------
(* group_maps_by: the filter *)

\* find_map over std_ratings: the stars of the first entry whose mods are 0.
RECURSIVE FindNoMod(_)
FindNoMod(std_ratings) ==
    IF std_ratings = <<>> THEN None
    ELSE IF Head(std_ratings).mods = 0 THEN Some(Head(std_ratings).stars)
    ELSE FindNoMod(Tail(std_ratings))

UnwrapOr(o, default) == IF o = None THEN default ELSE Unwrap(o)

\* A filter that reads the first rating, whatever its mods.
PassesFilterFirstEntry(a, map) ==
    /\ map.mode = "Standard"
    /\ (IF map.std_ratings = <<>> THEN a.min_star_rating
        ELSE Head(map.std_ratings).stars) >= a.min_star_rating

\* The closure of filter, lines 70-78.
PassesFilter(a, map) ==
    /\ map.mode = "Standard"
    /\ UnwrapOr(FindNoMod(map.std_ratings), a.min_star_rating) >= a.min_star_rating

----------------------------------------------------------------------------
(* group_maps_by: the closure of the fold *)

\* .join(map.folder_name.as_ref().unwrap()).join(map.file_name.as_ref().unwrap())
PathUnwraps(map) == map.folder_name # None /\ map.file_name # None

\* pp_aim / (pp_aim + pp_speed) * 100 / ratio_precision, floored, times
\* ratio_precision, cast to i32. With pp_aim = pp_speed = 0 the quotient is NaN,
\* NaN stays NaN through the arithmetic, and `NaN as i32` is 0. Otherwise the
\* value lies in [0, 100], where the cast truncates toward zero and never
\* saturates.
BucketKey(p, pp_aim, pp_speed) ==
    IF pp_aim + pp_speed = 0 THEN 0
    ELSE LET floored == (pp_aim * 100 * p.den) \div ((pp_aim + pp_speed) * p.num)
         IN  (floored * p.num) \div p.den

\* An insert that overwrites the bucket.
PushReplacing(hm, key, hash) ==
    [k \in DOMAIN hm \cup {key} |-> IF k = key THEN <<hash>> ELSE hm[k]]

\* Vec::push(hash_map.entry(key).or_default(), hash)
Push(hm, key, hash) ==
    [k \in DOMAIN hm \cup {key} |->
        IF k = key
        THEN (IF key \in DOMAIN hm THEN Append(hm[key], hash) ELSE <<hash>>)
        ELSE hm[k]]

EmptyMap == [k \in {} |-> <<>>]

\* The key a call of the closure computes, if it gets that far (lines 111-114).
ClosureKey(a, map) ==
    IF map.osu_file.parse = "Ok" /\ map.osu_file.kind = "Osu"
    THEN Some(BucketKey(a.ratio_precision, map.osu_file.pp_aim, map.osu_file.pp_speed))
    ELSE None

\* A closure that returns a new map when the parse fails.
ClosureErrResets(a, hm, map) ==
    IF map.osu_file.parse = "Err" THEN EmptyMap
    ELSE IF map.osu_file.kind = "Osu"
    THEN Push(hm, Unwrap(ClosureKey(a, map)), map.hash)
    ELSE hm

\* The accumulator a call of the closure returns, the path resolved (lines 99-135).
Closure(a, hm, map) ==
    IF map.osu_file.parse = "Err" THEN hm
    ELSE IF map.osu_file.kind = "Osu"
    THEN Push(hm, Unwrap(ClosureKey(a, map)), map.hash)
    ELSE hm

----------------------------------------------------------------------------
(* The synchronizer *)

\* A closure that drops the collections without a name too.
RetainsNamedOnly(a, c) ==
    c.name # None /\ ~StartsWith(Unwrap(c.name), a.collection_prefix)

\* The closure of retain in remove_previous_collections.
Retains(a, c) ==
    IF c.name # None THEN ~StartsWith(Unwrap(c.name), a.collection_prefix)
    ELSE TRUE

\* A retain that removes nothing.
RetainKeepsAll(a, cs) == cs

\* Vec::retain: the elements the closure accepts, in their order.
RECURSIVE Retain(_, _)
Retain(a, cs) ==
    IF cs = <<>> THEN <<>>
    ELSE IF Retains(a, Head(cs)) THEN <<Head(cs)>> \o Retain(a, Tail(cs))
    ELSE Retain(a, Tail(cs))

\* One iteration of the loop of add_new_collections.
NewCollection(a, groups, aim_ratio) ==
    [name |-> Some(CollectionName(a.collection_prefix, aim_ratio)),
     beatmap_hashes |-> groups[aim_ratio]]

\* The orders in which a HashMap with these keys may be iterated.
IterationOrders(keys) ==
    {order \in [1..Cardinality(keys) -> keys] :
        \A i, j \in 1..Cardinality(keys) : i # j => order[i] # order[j]}

\* New collections put before the old ones.
PushedInFront(cs, a, groups, order) ==
    [i \in 1..Len(order) |-> NewCollection(a, groups, order[i])] \o cs

\* The loop of add_new_collections, the map iterated in this order.
Pushed(cs, a, groups, order) ==
    cs \o [i \in 1..Len(order) |-> NewCollection(a, groups, order[i])]

----------------------------------------------------------------------------
(* Inputs *)

\* "% " (the default), "%" and the empty prefix.
Prefixes == { <<"%", " ">>, <<"%">>, <<>> }

\* 10.0 (the default) and 2.5
Precisions == { [num |-> 10, den |-> 1], [num |-> 5, den |-> 2] }

\* 4.0 (the default), in tenths of a star
MinStarRatings == { 40 }

ArgsOf(prefixes) ==
    [collection_prefix : prefixes, ratio_precision : Precisions,
     min_star_rating : MinStarRatings]

\* What the performance source makes of the file a record's path names.
OsuFile(parse, kind, pp_aim, pp_speed) ==
    [parse |-> parse, kind |-> kind, pp_aim |-> pp_aim, pp_speed |-> pp_speed]

DefaultFile == OsuFile("Ok", "Osu", 2, 1)

DefaultMap ==
    [hash |-> Some("h1"), folder_name |-> Some("dir"), file_name |-> Some("map.osu"),
     mode |-> "Standard", std_ratings |-> <<>>, osu_file |-> DefaultFile]

Rating(mods, stars) == [mods |-> mods, stars |-> stars]

\* std_ratings is read from a dictionary keyed by the mods: no key twice.
\* 64 is DoubleTime.
RatingLists ==
    { <<>>, <<Rating(0, 39)>>, <<Rating(0, 40)>>, <<Rating(64, 50)>>,
      <<Rating(64, 39), Rating(0, 50)>>, <<Rating(64, 50), Rating(0, 39)>> }

\* Records that differ in what the filter reads.
FilterCases ==
    {[DefaultMap EXCEPT !.mode = m, !.std_ratings = r, !.hash = Some("h2")] :
        m \in {"Standard", "Taiko"}, r \in RatingLists}

\* Records that differ in what the path resolution reads.
PathCases ==
    {[DefaultMap EXCEPT !.folder_name = f, !.file_name = n] :
        f \in {None, Some("dir")}, n \in {None, Some("map.osu")}}

PPPairs == { <<0, 0>>, <<0, 1>>, <<1, 2>>, <<3, 2>>, <<2, 1>>, <<3, 1>>, <<1, 0>> }

\* Records that differ in what the performance source returns, and in the hash.
FileCases ==
    {[DefaultMap EXCEPT !.osu_file = OsuFile("Ok", "Osu", p[1], p[2])] : p \in PPPairs}
    \cup {[DefaultMap EXCEPT !.osu_file = OsuFile("Err", "Osu", 0, 0)],
          [DefaultMap EXCEPT !.osu_file = OsuFile("Ok", "Taiko", 2, 1)]}
    \cup {[DefaultMap EXCEPT !.hash = h, !.osu_file = OsuFile("Ok", "Osu", 3, 2)] :
            h \in {None, Some("h2")}}

Beatmaps == FilterCases \cup PathCases \cup FileCases

SeqsUpTo(S, n) == UNION {[1..k -> S] : k \in 0..n}

Rated(stars) == [DefaultMap EXCEPT !.std_ratings = <<Rating(0, stars)>>]

\* A library of three Standard maps rated 3.9, 4.0 and 5.0 stars.
ScenarioListings == { <<Rated(39), Rated(40), Rated(50)>> }

MyFavorites == <<"M", "y">>

\* "% 60% Aim / 40% Tapping"
Stale60 ==
    <<"%", " ", "6", "0", "%", " ", "A", "i", "m", " ", "/", " ",
      "4", "0", "%", " ", "T", "a", "p", "p", "i", "n", "g">>

\* Names of the collections of a store: none, a user's, one shorter than the
\* default prefix, and one an earlier run with the default prefix left behind.
StoredNames ==
    { None, Some(MyFavorites), Some(<<"%">>), Some(Stale60) }

StoredCollections ==
    [name : StoredNames, beatmap_hashes : { <<>>, <<None, Some("h1")>> }]

\* Listings that classify into no, one and two buckets (at precision 10).
Pick(pp_aim, pp_speed, hash) ==
    [DefaultMap EXCEPT !.hash = hash, !.osu_file = OsuFile("Ok", "Osu", pp_aim, pp_speed)]

SyncListings ==
    { <<>>,
      <<Pick(3, 1, Some("h1"))>>,
      <<Pick(2, 1, Some("h1")), Pick(3, 1, None), Pick(3, 2, Some("h2"))>> }

----------------------------------------------------------------------------
(* Initial states: main at line 52, osu!.db read *)

InitLocals ==
    /\ pc = "group_maps_by"
    /\ filtered_maps = <<>>
    /\ idx = 0
    /\ hash_map = EmptyMap
    /\ rounded_aim_aspect = None
    /\ count = 0
    /\ aim_ratio_groups = EmptyMap
    /\ collections = <<>>
    /\ removed = 0
    /\ written = <<>>

\* Many listings, one store.
InitClassify ==
    /\ args \in ArgsOf({ <<"%", " ">> })
    /\ listing \in SeqsUpTo(Beatmaps, MaxMaps) \cup ScenarioListings
    /\ collection_db = <<[name |-> Some(MyFavorites), beatmap_hashes |-> <<>>]>>
    /\ InitLocals

\* Many stores and prefixes, a few listings.
InitSync ==
    /\ args \in ArgsOf(Prefixes)
    /\ listing \in SyncListings
    /\ collection_db \in SeqsUpTo(StoredCollections, MaxCollections)
    /\ InitLocals

----------------------------------------------------------------------------
(* Actions *)

\* group_maps_by, lines 67-89: the filter.
Filter ==
    /\ pc = "group_maps_by"
    /\ filtered_maps' = SelectSeq(listing, LAMBDA map : PassesFilter(args, map))
    /\ idx' = 0
    /\ hash_map' = EmptyMap
    /\ rounded_aim_aspect' = None
    /\ count' = 0
    /\ pc' = "fold"
    /\ UNCHANGED <<args, listing, collection_db, aim_ratio_groups, collections,
                   removed, written>>

\* group_maps_by, lines 93-136: one call of the fold's closure.
FoldStep ==
    /\ pc = "fold"
    /\ idx < Len(filtered_maps)
    /\ LET map == filtered_maps[idx + 1]
       IN  IF ~PathUnwraps(map)
           THEN \* unwrap() of None panics: the process ends
                /\ pc' = "panicked"
                /\ UNCHANGED <<idx, hash_map, rounded_aim_aspect, count>>
           ELSE /\ pc' = "fold"
                /\ idx' = idx + 1
                /\ hash_map' = Closure(args, hash_map, map)
                /\ rounded_aim_aspect' = ClosureKey(args, map)
                /\ count' = IF map.osu_file.parse = "Err" THEN count ELSE count + 1
    /\ UNCHANGED <<args, listing, collection_db, filtered_maps, aim_ratio_groups,
                   collections, removed, written>>

\* group_maps_by returns the accumulator (main, line 52).
FoldReturn ==
    /\ pc = "fold"
    /\ idx = Len(filtered_maps)
    /\ aim_ratio_groups' = hash_map
    /\ pc' = "read_collections"
    /\ UNCHANGED <<args, listing, collection_db, filtered_maps, idx, hash_map,
                   rounded_aim_aspect, count, collections, removed, written>>

\* main, line 56: CollectionList::from_file
ReadCollections ==
    /\ pc = "read_collections"
    /\ collections' = collection_db
    /\ pc' = "remove_previous"
    /\ UNCHANGED <<args, listing, collection_db, filtered_maps, idx, hash_map,
                   rounded_aim_aspect, count, aim_ratio_groups, removed, written>>

RemovePreviousCollections ==
    /\ pc = "remove_previous"
    /\ collections' = Retain(args, collections)
    /\ removed' = Len(collections) - Len(collections')
    /\ pc' = "add_new"
    /\ UNCHANGED <<args, listing, collection_db, filtered_maps, idx, hash_map,
                   rounded_aim_aspect, count, aim_ratio_groups, written>>

AddNewCollections ==
    /\ pc = "add_new"
    /\ \E order \in IterationOrders(DOMAIN aim_ratio_groups) :
          collections' = Pushed(collections, args, aim_ratio_groups, order)
    /\ pc' = "to_file"
    /\ UNCHANGED <<args, listing, collection_db, filtered_maps, idx, hash_map,
                   rounded_aim_aspect, count, aim_ratio_groups, removed, written>>

\* main, line 61: collections.to_file
ToFile ==
    /\ pc = "to_file"
    /\ collection_db' = collections
    /\ written' = Append(written, collections)
    /\ pc' = "done"
    /\ UNCHANGED <<args, listing, filtered_maps, idx, hash_map, rounded_aim_aspect,
                   count, aim_ratio_groups, collections, removed>>

\* The program is started again: same arguments, same osu!.db, same Songs, and
\* the collection.db the run before wrote.
Rerun ==
    /\ pc = "done"
    /\ Len(written) < MaxRuns
    /\ pc' = "group_maps_by"
    /\ filtered_maps' = <<>>
    /\ idx' = 0
    /\ hash_map' = EmptyMap
    /\ rounded_aim_aspect' = None
    /\ count' = 0
    /\ aim_ratio_groups' = EmptyMap
    /\ collections' = <<>>
    /\ removed' = 0
    /\ UNCHANGED <<args, listing, collection_db, written>>

Next ==
    \/ Filter
    \/ FoldStep
    \/ FoldReturn
    \/ ReadCollections
    \/ RemovePreviousCollections
    \/ AddNewCollections
    \/ ToFile

NextRerun ==
    \/ Next
    \/ Rerun

SpecClassify == InitClassify /\ [][Next]_vars

SpecSync == InitSync /\ [][Next]_vars

SpecRerun == InitSync /\ [][NextRerun]_vars

----------------------------------------------------------------------------
(* What the claims speak of, stated apart from the operators above *)

\* The collection's name is present and begins with the configured prefix.
HasPrefix(c) ==
    /\ c.name # None
    /\ Len(args.collection_prefix) <= Len(c.name[1])
    /\ \A i \in 1..Len(args.collection_prefix) : c.name[1][i] = args.collection_prefix[i]

\* The collections of a list that are not the program's, in the list's order.
Untouched(cs) == SelectSeq(cs, LAMBDA c : ~HasPrefix(c))

PrefixedAt(cs) == {i \in 1..Len(cs) : HasPrefix(cs[i])}

\* The name the spec gives the collection of a bucket.
ExpectedName(key) ==
    args.collection_prefix \o DisplayI32(key) \o <<"%", " ", "A", "i", "m", " ", "/", " ">>
        \o DisplayI32(100 - key) \o <<"%", " ", "T", "a", "p", "p", "i", "n", "g">>

ExpectedCollection(key) ==
    [name |-> <<ExpectedName(key)>>, beatmap_hashes |-> aim_ratio_groups[key]]

----------------------------------------------------------------------------
(* Claims on the synchronizer *)

\* C1: after remove_previous_collections and add_new_collections, the
\* collections whose name is absent or lacks the prefix are those of the store
\* as loaded, same members, order, names and hashes, and they all come before
\* every collection appended.
C1_NonPrefixedUntouched ==
    pc = "to_file" =>
        LET kept == Untouched(collection_db)
        IN  /\ Untouched(collections) = kept
            /\ Len(kept) <= Len(collections)
            /\ SubSeq(collections, 1, Len(kept)) = kept
            /\ \A i \in (Len(kept) + 1)..Len(collections) : HasPrefix(collections[i])

C1_Witness ==
    /\ pc = "to_file"
    /\ \E i, j \in 1..Len(collection_db) :
          /\ collection_db[i].name = None
          /\ collection_db[i].beatmap_hashes = <<None, Some("h1")>>
          /\ HasPrefix(collection_db[j])
    /\ Len(collections) > Len(Untouched(collection_db))

\* C2: remove_previous_collections leaves exactly the collections whose name is
\* absent or does not start with the prefix, in their order, and the count it
\* reports is the original length less the retained length, which is the number
\* of collections whose name started with the prefix.
C2_RemovePrevious ==
    pc = "add_new" =>
        /\ collections = Untouched(collection_db)
        /\ \A i \in 1..Len(collections) : ~HasPrefix(collections[i])
        /\ removed = Len(collection_db) - Len(collections)
        /\ removed = Cardinality(PrefixedAt(collection_db))

C2_Witness ==
    /\ pc = "add_new"
    /\ removed = 1
    /\ Len(collections) = 1
    /\ args.collection_prefix = <<"%", " ">>
    /\ collection_db[1].name = Some(<<"%">>)

\* C3: after one synchronization pass the collections whose name starts with
\* the prefix are exactly this run's: one per bucket key, named
\* "{prefix}{key}% Aim / {100-key}% Tapping" and carrying the bucket's hashes;
\* they stand after the retained ones, and the length is retained + buckets.
C3_PrefixedAreThisRuns ==
    pc = "to_file" =>
        LET retained == Len(Untouched(collection_db))
            keys == DOMAIN aim_ratio_groups
            fresh == PrefixedAt(collections)
        IN  /\ Len(collections) = retained + Cardinality(keys)
            /\ fresh = (retained + 1)..Len(collections)
            /\ \A k \in keys :
                  Cardinality({i \in fresh : collections[i] = ExpectedCollection(k)}) = 1
            /\ \A i \in fresh : \E k \in keys : collections[i] = ExpectedCollection(k)

\* The store ["% 60% Aim / 40% Tapping", "My Favorites"] and bucket 70 alone
\* give ["My Favorites", "% 70% Aim / 30% Tapping"].
C3_Witness ==
    /\ pc = "to_file"
    /\ Len(collection_db) = 2
    /\ collection_db[1].name = Some(Stale60)
    /\ collection_db[2].name = Some(MyFavorites)
    /\ DOMAIN aim_ratio_groups = {70}
    /\ Len(collections) = 2
    /\ collections[1] = collection_db[2]
    /\ collections[2].name =
          Some(<<"%", " ", "7", "0", "%", " ", "A", "i", "m", " ", "/", " ",
                 "3", "0", "%", " ", "T", "a", "p", "p", "i", "n", "g">>)
    /\ collections[2].beatmap_hashes = <<Some("h1")>>

HashSet(c) == {c.beatmap_hashes[i] : i \in 1..Len(c.beatmap_hashes)}

PrefixedContent(cs) == {[name |-> cs[i].name, hashes |-> HashSet(cs[i])] : i \in PrefixedAt(cs)}

\* C4: a run on the store the run before wrote, with the same listing,
\* performance results and arguments, writes a store whose prefixed collections
\* have the same names and hash sets, whose other collections are unchanged,
\* and which is no longer.
C4_Idempotent ==
    \A r \in 1..(Len(written) - 1) :
        /\ PrefixedContent(written[r + 1]) = PrefixedContent(written[r])
        /\ Cardinality(PrefixedAt(written[r + 1])) = Cardinality(PrefixedAt(written[r]))
        /\ Untouched(written[r + 1]) = Untouched(written[r])
        /\ Len(written[r + 1]) <= Len(written[r])

\* The second run wrote the buckets in another order than the first.
C4_Witness ==
    /\ Len(written) >= 2
    /\ written[2] # written[1]
    /\ Untouched(written[2]) # <<>>
    /\ Cardinality(PrefixedAt(written[2])) = 2

----------------------------------------------------------------------------
(* Claims on the classifier *)

\* The records the fold has consumed.
Processed == SubSeq(filtered_maps, 1, idx)

\* The record yields a Standard-mode performance result.
Yields(map) == map.osu_file.parse = "Ok" /\ map.osu_file.kind = "Osu"

KeyOf(map) ==
    BucketKey(args.ratio_precision, map.osu_file.pp_aim, map.osu_file.pp_speed)

HashesOf(maps) == [i \in 1..Len(maps) |-> maps[i].hash]

\* The buckets of a sequence of records: each key's hashes, in the order of the
\* sequence.
BucketsOf(maps) ==
    [k \in {KeyOf(maps[i]) : i \in {j \in 1..Len(maps) : Yields(maps[j])}} |->
        HashesOf(SelectSeq(maps, LAMBDA m : Yields(m) /\ KeyOf(m) = k))]

RECURSIVE SumOver(_, _)
SumOver(f, S) ==
    IF S = {} THEN 0
    ELSE LET x == CHOOSE y \in S : TRUE IN Len(f[x]) + SumOver(f, S \ {x})

TotalHashes == SumOver(hash_map, DOMAIN hash_map)

\* The percentage-scale ratio of the record the fold consumed last is
\* RatioNum / RatioDen.
LastMap == filtered_maps[idx]

RatioNum == 100 * LastMap.osu_file.pp_aim

RatioDen == LastMap.osu_file.pp_aim + LastMap.osu_file.pp_speed

\* C5: for every precision p > 0 and ratio r in [0, 100] the bucket key is a
\* multiple of p with key <= r < key + p.
C5_KeyIsMultipleAndBrackets ==
    (idx >= 1 /\ rounded_aim_aspect # None /\ RatioDen > 0) =>
        LET key == rounded_aim_aspect[1]
            p == args.ratio_precision
        IN  /\ (key * p.den) % p.num = 0
            /\ key * RatioDen <= RatioNum
            /\ RatioNum * p.den < (key * p.den + p.num) * RatioDen

\* C6: a record whose performance result has aim 0 and speed 0 is in no
\* bucket and creates none: the buckets are those of the other records.
C6_ZeroZeroExcluded ==
    pc \in {"fold", "read_collections"} =>
        hash_map = BucketsOf(SelectSeq(Processed,
                       LAMBDA m : m.osu_file.pp_aim + m.osu_file.pp_speed > 0))

\* C7: a record that passed the filter and has no folder or file name does
\* not abort group_maps_by.
C7_MissingPathSkipped ==
    (\E i \in 1..Len(filtered_maps) :
        filtered_maps[i].folder_name = None \/ filtered_maps[i].file_name = None)
    => pc # "panicked"

\* The no-mod star rating of the record is absent or at least the minimum.
Considered(map) ==
    /\ map.mode = "Standard"
    /\ \A i \in 1..Len(map.std_ratings) :
          map.std_ratings[i].mods = 0 => map.std_ratings[i].stars >= args.min_star_rating

\* C8: group_maps_by considers exactly the Standard records whose no-mod
\* rating is absent or at least min_star_rating; no other record gives a bucket
\* a hash.
C8_FilterConsidersExactly ==
    pc # "group_maps_by" =>
        /\ filtered_maps = SelectSeq(listing, Considered)
        /\ idx <= Len(filtered_maps)
        /\ TotalHashes <= idx
        /\ \A k \in DOMAIN hash_map : \A i \in 1..Len(hash_map[k]) :
              \E j \in 1..idx : Considered(filtered_maps[j])
                                /\ filtered_maps[j].hash = hash_map[k][i]

\* Three Standard maps rated 3.9, 4.0 and 5.0: two are classified.
C8_Witness ==
    /\ pc = "read_collections"
    /\ Len(listing) = 3
    /\ listing[1].std_ratings = <<Rating(0, 39)>>
    /\ listing[2].std_ratings = <<Rating(0, 40)>>
    /\ filtered_maps = <<listing[2], listing[3]>>
    /\ TotalHashes = 2

\* C9: every consumed record that yields a Standard-mode result has its hash
\* once, in the bucket of its key; a bucket lists its hashes in listing order;
\* no bucket is ever empty; the hashes number as many as those records.
C9_BucketsHoldEachRecordOnce ==
    /\ DOMAIN hash_map = {KeyOf(Processed[i]) : i \in {j \in 1..idx : Yields(Processed[j])}}
    /\ \A k \in DOMAIN hash_map :
          /\ hash_map[k] # <<>>
          /\ hash_map[k] = HashesOf(SelectSeq(Processed,
                               LAMBDA m : Yields(m) /\ KeyOf(m) = k))
    /\ TotalHashes = Cardinality({j \in 1..idx : Yields(Processed[j])})

\* Two records of one key share a bucket, in listing order, a None hash kept.
C9_Witness ==
    /\ pc = "read_collections"
    /\ idx = 2
    /\ DOMAIN hash_map = {60}
    /\ hash_map[60] = <<Some("h1"), None>>

Unparseable(map) == map.osu_file.parse = "Err"

\* C10: a record whose map file fails to parse leaves the buckets as they
\* were and does not abort; the fold goes on, and the buckets returned are those
\* of the listing without the record.
C10_ParseFailureSkipped ==
    /\ [][(pc = "fold" /\ idx < Len(filtered_maps)
            /\ filtered_maps[idx + 1].folder_name # None
            /\ filtered_maps[idx + 1].file_name # None
            /\ Unparseable(filtered_maps[idx + 1]))
          => (hash_map' = hash_map /\ pc' = "fold" /\ idx' = idx + 1)]_vars
    /\ [](pc = "read_collections" =>
            aim_ratio_groups =
                BucketsOf(SelectSeq(filtered_maps, LAMBDA m : ~Unparseable(m))))

\* An unparseable record, then one that is classified.
C10_Witness ==
    /\ pc = "read_collections"
    /\ Len(filtered_maps) = 2
    /\ Unparseable(filtered_maps[1])
    /\ ~Unparseable(filtered_maps[2])
    /\ DOMAIN aim_ratio_groups # {}

=============================================================================
